---- MODULE Spec2Model ----
(***************************************************************************)
(* Model of the auto-toggle poll loop of orchestrator/auto_toggle.py:      *)
(* the three persisted state files, the startup probe, and one action per  *)
(* way a tick of _auto_toggle_loop can run.  A tick is one atomic action;  *)
(* what it did (inputs, state read at its start, decision, calls made in   *)
(* order, whether it was aborted by an exception) is recorded in `last`.   *)
(*                                                                         *)
(* PnL values are modelled as integers: the loop only compares, adds the   *)
(* drawback constant and subtracts, which integers do exactly.             *)
(*                                                                         *)
(* The telegram bot of orchestrator/bot.py that is meant to start the loop *)
(* is modelled in `bot`: its start-up sequence (SpecBoot) and the          *)
(* confirmation buttons of its trade commands (SpecChat).                  *)
(***************************************************************************)
EXTENDS Integers, Sequences, FiniteSets, TLC

VARIABLES
    baseline_file,   \* runtime/auto_baseline.txt
    peak_file,       \* runtime/auto_peak.txt
    direction_file,  \* runtime/auto_direction.txt
    long_running,    \* local of _auto_toggle_loop, set by the startup probe
    short_running,   \* local of _auto_toggle_loop, set by the startup probe
    delta,           \* local of _auto_toggle_loop, bound only on the threshold branch
    pc,              \* "start": process started, probe not yet run; "loop": in while True
    restarts,        \* number of process restarts so far
    last,            \* record of the last step taken (history)
    script,          \* progress along the end-to-end scenario (history)
    phase,           \* parity of the number of ticks started so far (history)
    twin,            \* the same run, fed the same inputs, had it never been restarted
    workers,         \* number of poll-loop threads alive in the process
    seen,            \* inputs of the last tick and running extremum (history)
    bot              \* the telegram bot process: start-up position and chat-layer state

vars == <<baseline_file, peak_file, direction_file, long_running, short_running,
          delta, pc, restarts, last, script, phase, twin, workers, seen, bot>>

----------------------------------------------------------------------------
(* Bounds and program constants *)

MaxRestarts == 1

DefaultThreshold == 400
DefaultInterval == 30
Drawback == 500
NoUrlSleep == 60
ErrorSleep == 30

PnlValues == {500, 600, 1000, 1420, 1500}
Thresholds == {DefaultThreshold, 500}
Intervals == {DefaultInterval}

----------------------------------------------------------------------------
(* Python values *)

\* Optional[T]: None is the empty sequence, a value v is <<v>>.
None == <<>>
Some(v) == <<v>>

\* The text str(value) writes for a float, and the text of a direction.
FloatText(v) == [exists |-> TRUE, parses |-> TRUE, num |-> v]
NoFloatFile == [exists |-> FALSE, parses |-> FALSE, num |-> 0]
DirText(s) == [exists |-> TRUE, text |-> s]
NoDirFile == [exists |-> FALSE, text |-> ""]

\* float(f.read().strip()) inside try/except: None when the file is absent
\* or its text is not a number.
_read_baseline(f) ==
    IF ~f.exists THEN None
    ELSE IF f.parses THEN Some(f.num) ELSE None

_read_peak(f) ==
    IF ~f.exists THEN None
    ELSE IF f.parses THEN Some(f.num) ELSE None

\* f.read().strip(): the text as it is, None when the file is absent.
_read_direction(f) ==
    IF ~f.exists THEN None ELSE Some(f.text)

_write_baseline(value) == FloatText(value)
_write_peak(value) == FloatText(value)
_write_direction(direction) == DirText(direction)

\* Python truthiness of an Optional[str]: None and "" are false.
Truthy(s) == s /= None /\ s[1] /= ""

----------------------------------------------------------------------------
(* The fetched JSON and the PnL taken from it *)

\* One record of the status list: profit_abs, profit_pct and the stake
\* (stake_amount or stake_amount_fiat or amount), each present or not.
Position(profit_abs, profit_pct, stake_amt) ==
    [profit_abs |-> profit_abs, profit_pct |-> profit_pct, stake_amt |-> stake_amt]

\* The JSON value of a response: a list of records, an object with or
\* without a `trades` list, another JSON value, or no fetch at all.
Json(type, has_trades, trades) ==
    [type |-> type, has_trades |-> has_trades, trades |-> trades]
NoJson == Json("none", FALSE, <<>>)
StatusList(trades) == Json("list", FALSE, trades)

\* What one record adds to total_profit: profit_abs when it is a number,
\* else stake * pct / 100 when both are there and the stake is truthy,
\* else nothing.
PositionProfit(t) ==
    IF t.profit_abs /= None THEN t.profit_abs[1]
    ELSE IF t.profit_pct /= None /\ t.stake_amt /= None /\ t.stake_amt[1] /= 0
    THEN (t.stake_amt[1] * t.profit_pct[1]) \div 100
    ELSE 0

RECURSIVE TotalProfit(_)
TotalProfit(trades) ==
    IF trades = <<>> THEN 0
    ELSE PositionProfit(Head(trades)) + TotalProfit(Tail(trades))

\* pnl: total_profit for an object or a list (an object without a `trades`
\* list counts as an empty list), None for any other JSON value.
ExtractPnl(fetched) ==
    IF fetched.type = "list" THEN Some(TotalProfit(fetched.trades))
    ELSE IF fetched.type = "dict"
    THEN Some(TotalProfit(IF fetched.has_trades THEN fetched.trades ELSE <<>>))
    ELSE None

\* Responses of a healthy status endpoint: one open position with a
\* numeric profit_abs.
StatusData == {StatusList(<<Position(Some(v), None, None)>>) : v \in PnlValues}

\* Other responses: an object without `trades`, a record without any of
\* the fields, a record whose profit is estimated from stake and
\* percentage, an object with a `trades` list, a JSON scalar.
OddData ==
    {Json("dict", FALSE, <<>>),
     StatusList(<<Position(None, None, None)>>),
     StatusList(<<Position(None, Some(50), Some(2000))>>),
     Json("dict", TRUE, <<Position(Some(1000), None, None), Position(Some(400), None, None)>>),
     Json("scalar", FALSE, <<>>)}

----------------------------------------------------------------------------
(* The decision logic of one tick, in source order *)

\* Direction written by the initialization tick.
InitDirectionSwapped(lr, sr) ==
    IF lr /\ ~sr THEN "short"
    ELSE IF sr /\ ~lr THEN "long"
    ELSE "none"

InitDirectionBothIsLong(lr, sr) ==
    IF lr THEN "long"
    ELSE IF sr THEN "short"
    ELSE "none"

InitDirectionNamesBoth(lr, sr) ==
    IF lr /\ sr THEN "both"
    ELSE IF lr THEN "long"
    ELSE IF sr THEN "short"
    ELSE "none"

InitDirection(lr, sr) ==
    IF lr /\ ~sr THEN "long"
    ELSE IF sr /\ ~lr THEN "short"
    ELSE "none"

\* Whether step 1 writes the peak file.
PeakUpdateFiresNoPeakCheck(current_direction, pnl_value, baseline, peak) ==
    /\ Truthy(current_direction)
    /\ current_direction[1] /= "none"
    /\ \/ current_direction[1] = "long" /\ pnl_value < baseline[1]
       \/ current_direction[1] = "short" /\ pnl_value > baseline[1]

PeakUpdateFiresCopyPaste(current_direction, pnl_value, baseline, peak) ==
    /\ Truthy(current_direction)
    /\ current_direction[1] /= "none"
    /\ \/ /\ current_direction[1] = "long"
          /\ pnl_value < baseline[1]
          /\ (peak = None \/ pnl_value < peak[1])
       \/ /\ current_direction[1] = "short"
          /\ pnl_value > baseline[1]
          /\ (peak = None \/ pnl_value < peak[1])

PeakUpdateFiresInNone(current_direction, pnl_value, baseline, peak) ==
    /\ Truthy(current_direction)
    /\ \/ /\ current_direction[1] = "long"
          /\ pnl_value < baseline[1]
          /\ (peak = None \/ pnl_value < peak[1])
       \/ /\ current_direction[1] /= "long"
          /\ pnl_value > baseline[1]
          /\ (peak = None \/ pnl_value > peak[1])

PeakUpdateFiresWrongSide(current_direction, pnl_value, baseline, peak) ==
    /\ Truthy(current_direction)
    /\ current_direction[1] /= "none"
    /\ \/ /\ current_direction[1] = "long"
          /\ pnl_value > baseline[1]
          /\ (peak = None \/ pnl_value > peak[1])
       \/ /\ current_direction[1] = "short"
          /\ pnl_value < baseline[1]
          /\ (peak = None \/ pnl_value < peak[1])

PeakUpdateFires(current_direction, pnl_value, baseline, peak) ==
    /\ Truthy(current_direction)
    /\ current_direction[1] /= "none"
    /\ \/ /\ current_direction[1] = "long"
          /\ pnl_value < baseline[1]
          /\ (peak = None \/ pnl_value < peak[1])
       \/ /\ current_direction[1] = "short"
          /\ pnl_value > baseline[1]
          /\ (peak = None \/ pnl_value > peak[1])

\* Whether the flip evaluation takes the drawback branch (else: threshold branch).
DrawbackBranch(current_direction, peak) ==
    Truthy(current_direction) /\ current_direction[1] /= "none" /\ peak /= None

\* The flip evaluation: the new direction, or None.  `peak` is the value read
\* at the start of the tick, `threshold` the one of this tick's configuration.
FlipDecisionDefaultThreshold(current_direction, pnl_value, baseline, peak, threshold) ==
    IF DrawbackBranch(current_direction, peak)
    THEN IF current_direction[1] = "long" /\ pnl_value >= peak[1] + Drawback
         THEN Some("short")
         ELSE IF current_direction[1] = "short" /\ pnl_value <= peak[1] - Drawback
         THEN Some("long")
         ELSE None
    ELSE IF pnl_value - baseline[1] <= -DefaultThreshold
         THEN Some("long")
         ELSE IF pnl_value - baseline[1] >= DefaultThreshold
         THEN Some("short")
         ELSE None

FlipDecision(current_direction, pnl_value, baseline, peak, threshold) ==
    IF DrawbackBranch(current_direction, peak)
    THEN IF current_direction[1] = "long" /\ pnl_value >= peak[1] + Drawback
         THEN Some("short")
         ELSE IF current_direction[1] = "short" /\ pnl_value <= peak[1] - Drawback
         THEN Some("long")
         ELSE None
    ELSE IF pnl_value - baseline[1] <= -threshold
         THEN Some("long")
         ELSE IF pnl_value - baseline[1] >= threshold
         THEN Some("short")
         ELSE None

\* The local `delta` after the flip evaluation: assigned on the threshold
\* branch only, otherwise whatever an earlier tick left (None: unbound).
DeltaAfter(current_direction, pnl_value, baseline, peak, old_delta) ==
    IF DrawbackBranch(current_direction, peak)
    THEN old_delta
    ELSE Some(pnl_value - baseline[1])

\* format(value, spec) raises: NoneType accepts only the empty spec, float
\* only a well-formed one.
FloatFormatSpecs == {"", ".2f", "+.2f"}
FormatRaises(value, spec) ==
    IF value = None THEN spec /= "" ELSE spec \notin FloatFormatSpecs

\* The replacement field {peak:.2f if peak else 'None'} of the status line:
\* everything after the colon is the format spec.
StatusPeakFormatSpec == ".2f if peak else 'None'"
StatusLineRaises(baseline, peak) ==
    FormatRaises(baseline, ".2f") \/ FormatRaises(peak, StatusPeakFormatSpec)

Call(op, threw) == [op |-> op, threw |-> threw]

\* The two actuator calls of a flip, in order; each in its own try/except.
ActuatorCalls(direction, stop_throws, start_throws) ==
    IF direction = "long"
    THEN <<Call("stop_short", stop_throws), Call("start_long", start_throws)>>
    ELSE <<Call("stop_long", stop_throws), Call("start_short", start_throws)>>

\* The notification of a peak update or of a flip: attempted only when token
\* and chat_id are configured; building the flip text reads `delta`.
PeakNotifyCalls(tg_configured, post_throws) ==
    IF tg_configured THEN <<Call("notify_peak", post_throws)>> ELSE <<>>

FlipNotifyCalls(tg_configured, delta_now, post_throws) ==
    IF tg_configured /\ delta_now /= None
    THEN <<Call("notify_flip", post_throws)>>
    ELSE <<>>

----------------------------------------------------------------------------
(* History *)

Pre == [baseline |-> baseline_file, peak |-> peak_file, direction |-> direction_file]

Rec(kind, pnl, threshold, new_direction, peak_written, raised, calls, slept) ==
    [kind |-> kind, pnl |-> pnl, threshold |-> threshold, pre |-> Pre,
     new_direction |-> new_direction, peak_written |-> peak_written,
     raised |-> raised, calls |-> calls, slept |-> slept]

\* The end-to-end scenario: fetched values in order, threshold 400.
Script == <<1000, 1420, 1500, 1000>>
ScriptOff == 0 - 1

ScriptNext(pnl_value, threshold) ==
    IF /\ script >= 0
       /\ script < Len(Script)
       /\ pnl_value = Script[script + 1]
       /\ threshold = DefaultThreshold
    THEN script + 1
    ELSE ScriptOff

\* What a tick that fetched pnl_value does, as a function of the files and
\* the probe result it runs with: the files after it, the decided direction
\* and the actuator calls made.
TickOutcome(files, lr, sr, pnl_value, threshold, stop_throws, start_throws) ==
    LET baseline == _read_baseline(files.baseline)
        current_direction == _read_direction(files.direction)
        peak == _read_peak(files.peak)
    IN  IF baseline = None
        THEN [files |-> [baseline |-> _write_baseline(pnl_value),
                         peak |-> _write_peak(pnl_value),
                         direction |-> _write_direction(InitDirection(lr, sr))],
              new_direction |-> None,
              acts |-> <<>>]
        ELSE LET peak_fires == PeakUpdateFires(current_direction, pnl_value, baseline, peak)
                 direction == FlipDecision(current_direction, pnl_value, baseline, peak,
                                           threshold)
                 flips == ~StatusLineRaises(baseline, peak) /\ direction /= None
             IN  [files |-> [baseline |-> IF flips THEN _write_baseline(pnl_value)
                                          ELSE files.baseline,
                             peak |-> IF flips \/ peak_fires THEN _write_peak(pnl_value)
                                      ELSE files.peak,
                             direction |-> IF flips THEN _write_direction(direction[1])
                                           ELSE files.direction],
                  new_direction |-> direction,
                  acts |-> IF flips
                           THEN ActuatorCalls(direction[1], stop_throws, start_throws)
                           ELSE <<>>]

\* The never-restarted run: its files and the probe result of its startup.
TwinStart(lr, sr) ==
    [files |-> [baseline |-> NoFloatFile, peak |-> NoFloatFile, direction |-> NoDirFile],
     long_running |-> lr, short_running |-> sr,
     new_direction |-> None, acts |-> <<>>]

TwinTick(pnl_value, threshold, stop_throws, start_throws) ==
    LET out == TickOutcome(twin.files, twin.long_running, twin.short_running,
                           pnl_value, threshold, stop_throws, start_throws)
    IN  [twin EXCEPT !.files = out.files, !.new_direction = out.new_direction,
                     !.acts = out.acts]

\* What the last tick took in: the JSON it fetched, whether telegram token
\* and chat_id were configured, and the extremum (minimum while long,
\* maximum while short) of the values evaluated since the tick in which the
\* persisted direction was adopted.
Seen(fetched, tg_configured, extremum) ==
    [data |-> fetched, tg_configured |-> tg_configured, extremum |-> extremum]

Forget(sn) == Seen(NoJson, FALSE, sn.extremum)

ExtremumAfter(pre_direction, post_direction, pnl_value, extremum) ==
    IF ~post_direction.exists \/ post_direction.text \notin {"long", "short"}
    THEN None
    ELSE IF post_direction /= pre_direction \/ extremum = None
    THEN Some(pnl_value)
    ELSE IF post_direction.text = "long"
    THEN Some(IF pnl_value < extremum[1] THEN pnl_value ELSE extremum[1])
    ELSE Some(IF pnl_value > extremum[1] THEN pnl_value ELSE extremum[1])

\* The loop thread is a daemon thread: it ends with the process.
WorkersAfterExitLingers(w) == w

WorkersAfterExit(w) == 0

----------------------------------------------------------------------------
(* Actions *)

\* The bot process before it is started: nothing registered, no operation
\* issued, executed_operations = set().
NoReply == [op_id |-> 0, outcome |-> ""]

BotInit ==
    [pc |-> "off", cfg |-> "", handlers |-> 0, error |-> "", threads |-> 0,
     ops |-> <<>>, pending |-> <<>>, executed_operations |-> {}, runs |-> <<>>,
     cancelled |-> {}, ran_cancelled |-> {}, presses |-> 0, reply |-> NoReply]

LoopInit ==
    /\ baseline_file = NoFloatFile
    /\ peak_file = NoFloatFile
    /\ direction_file = NoDirFile
    /\ long_running = FALSE
    /\ short_running = FALSE
    /\ delta = None
    /\ pc = "start"
    /\ restarts = 0
    /\ last = Rec("boot", None, None, None, FALSE, FALSE, <<>>, 0)
    /\ script = ScriptOff
    /\ phase = FALSE
    /\ twin = TwinStart(FALSE, FALSE)
    /\ workers = 0
    /\ seen = Seen(NoJson, FALSE, None)

Init ==
    /\ LoopInit
    /\ bot = BotInit

\* What one status request of the startup probe can come to: the instance
\* has no base_url / user / pass configured (no request is made), httpx.get
\* or resp.json() raises, the status is not 200, the content type is not
\* JSON, the JSON is empty, or the JSON is a non-empty list or object.
ProbeOutcomes == {"unconfigured", "unreachable", "not_200", "not_json", "empty", "running"}

InstanceRunning(outcome) == outcome = "running"

\* The status requests the probe makes, in order, and whether each raised.
ProbeCalls(cfg_raises, long, short) ==
    IF cfg_raises THEN <<>>
    ELSE (IF long = "unconfigured" THEN <<>>
          ELSE <<Call("get_long_status", long = "unreachable")>>)
         \o (IF short = "unconfigured" THEN <<>>
             ELSE <<Call("get_short_status", short = "unreachable")>>)

\* The pair (long_running, short_running) the probe returns; cfg_raises:
\* get_config raised, which the outer except turns into (False, False).
_check_instance_status(cfg_raises, long, short) ==
    IF cfg_raises THEN <<FALSE, FALSE>>
    ELSE <<InstanceRunning(long), InstanceRunning(short)>>

\* Where control is after the probe: each request has its own try/except
\* and the whole probe another, so the loop is entered whatever happened.
PcAfterProbeRaises(calls) ==
    IF \E i \in 1..Len(calls) : calls[i].threw THEN "exited" ELSE "loop"

PcAfterProbe(calls) == "loop"

\* schedule_auto_toggle starts the loop thread; the startup probe
\* (_check_instance_status) returns a pair of booleans and never raises;
\* then the loop is entered.
StartupRewritesDirection ==
    /\ pc = "start"
    /\ \E cfg_raises \in BOOLEAN, long \in ProbeOutcomes, short \in ProbeOutcomes :
          LET status == _check_instance_status(cfg_raises, long, short)
              lr == status[1]
              sr == status[2]
          IN
          /\ long_running' = lr
          /\ short_running' = sr
          /\ script' = IF ~lr /\ ~sr /\ ~baseline_file.exists
                          /\ ~peak_file.exists /\ ~direction_file.exists
                       THEN 0 ELSE ScriptOff
          /\ twin' = IF ~baseline_file.exists /\ ~peak_file.exists
                         /\ ~direction_file.exists
                      THEN TwinStart(lr, sr) ELSE twin
          /\ direction_file' = IF direction_file.exists
                               THEN _write_direction(InitDirection(lr, sr))
                               ELSE direction_file
          /\ last' = Rec("startup", None, None, None, FALSE, FALSE,
                         ProbeCalls(cfg_raises, long, short), 0)
          /\ pc' = PcAfterProbe(ProbeCalls(cfg_raises, long, short))
    /\ workers' = workers + 1
    /\ UNCHANGED <<baseline_file, peak_file, delta, restarts, phase, seen, bot>>

Startup ==
    /\ pc = "start"
    /\ \E cfg_raises \in BOOLEAN, long \in ProbeOutcomes, short \in ProbeOutcomes :
          LET status == _check_instance_status(cfg_raises, long, short)
              lr == status[1]
              sr == status[2]
          IN
          /\ long_running' = lr
          /\ short_running' = sr
          /\ script' = IF ~lr /\ ~sr /\ ~baseline_file.exists
                          /\ ~peak_file.exists /\ ~direction_file.exists
                       THEN 0 ELSE ScriptOff
          /\ twin' = IF ~baseline_file.exists /\ ~peak_file.exists
                         /\ ~direction_file.exists
                      THEN TwinStart(lr, sr) ELSE twin
          /\ last' = Rec("startup", None, None, None, FALSE, FALSE,
                         ProbeCalls(cfg_raises, long, short), 0)
          /\ pc' = PcAfterProbe(ProbeCalls(cfg_raises, long, short))
    /\ workers' = workers + 1
    /\ UNCHANGED <<baseline_file, peak_file, direction_file, delta, restarts, phase, seen, bot>>

\* The process is stopped between two ticks and started again: the files
\* stay, the locals are lost.
Restart ==
    /\ pc = "loop"
    /\ restarts < MaxRestarts
    /\ restarts' = restarts + 1
    /\ pc' = "start"
    /\ long_running' = FALSE
    /\ short_running' = FALSE
    /\ delta' = None
    /\ script' = ScriptOff
    /\ last' = Rec("boot", None, None, None, FALSE, FALSE, <<>>, 0)
    /\ workers' = WorkersAfterExit(workers)
    /\ seen' = Forget(seen)
    /\ UNCHANGED <<baseline_file, peak_file, direction_file, phase, twin, bot>>

\* Where control is after an exception reached the loop's own handler: the
\* try/except sits inside while True, so the loop goes on.
PcAfterLoopErrorExits == "exited"

PcAfterLoopError == "loop"

\* get_config raises, or interval_sec / threshold of the configuration do
\* not convert to int / float: the loop's except logs and sleeps 30.
TickConfigError ==
    /\ pc = "loop"
    /\ last' = Rec("config_error", None, None, None, FALSE, TRUE, <<>>, ErrorSleep)
    /\ pc' = PcAfterLoopError
    /\ phase' = ~phase
    /\ seen' = Forget(seen)
    /\ UNCHANGED <<baseline_file, peak_file, direction_file, long_running,
                   short_running, delta, restarts, script, twin, workers, bot>>

\* external_status.url is empty: log, sleep 60, continue.
TickNoUrlResetsState ==
    /\ pc = "loop"
    /\ last' = Rec("no_url", None, None, None, FALSE, FALSE, <<>>, NoUrlSleep)
    /\ phase' = ~phase
    /\ baseline_file' = NoFloatFile
    /\ seen' = Forget(seen)
    /\ UNCHANGED <<peak_file, direction_file, long_running,
                   short_running, delta, pc, restarts, script, twin, workers, bot>>

TickNoUrl ==
    /\ pc = "loop"
    /\ last' = Rec("no_url", None, None, None, FALSE, FALSE, <<>>, NoUrlSleep)
    /\ phase' = ~phase
    /\ seen' = Forget(seen)
    /\ UNCHANGED <<baseline_file, peak_file, direction_file, long_running,
                   short_running, delta, pc, restarts, script, twin, workers, bot>>

\* The fetch raises (network error, timeout, malformed JSON) or yields no
\* JSON at all: log, sleep interval_sec, continue.
FetchFailedAsZero(interval_sec) ==
    /\ baseline_file' = _write_baseline(0)
    /\ last' = Rec("fetch_failed", None, None, None, FALSE, FALSE, <<>>, interval_sec)
    /\ UNCHANGED <<peak_file, direction_file>>

FetchFailed(interval_sec) ==
    /\ last' = Rec("fetch_failed", None, None, None, FALSE, FALSE, <<>>, interval_sec)
    /\ UNCHANGED <<baseline_file, peak_file, direction_file>>

TickFetchFailed ==
    /\ pc = "loop"
    /\ \E interval_sec \in Intervals : FetchFailed(interval_sec)
    /\ phase' = ~phase
    /\ seen' = Forget(seen)
    /\ UNCHANGED <<long_running, short_running, delta, pc, restarts, script, twin, workers, bot>>

\* Baseline absent: write baseline, peak and the inferred direction; sleep;
\* continue (no peak update, no flip evaluation).
InitializeWithoutPeak(pnl_value, threshold, interval_sec) ==
    /\ baseline_file' = _write_baseline(pnl_value)
    /\ peak_file' = peak_file
    /\ direction_file' = _write_direction(InitDirection(long_running, short_running))
    /\ last' = Rec("init", Some(pnl_value), Some(threshold), None, FALSE, FALSE,
                   <<>>, interval_sec)

Initialize(pnl_value, threshold, interval_sec) ==
    /\ baseline_file' = _write_baseline(pnl_value)
    /\ peak_file' = _write_peak(pnl_value)
    /\ direction_file' = _write_direction(InitDirection(long_running, short_running))
    /\ last' = Rec("init", Some(pnl_value), Some(threshold), None, FALSE, FALSE,
                   <<>>, interval_sec)

TickInit(D) ==
    /\ pc = "loop"
    /\ _read_baseline(baseline_file) = None
    /\ \E fetched \in D, threshold \in Thresholds, interval_sec \in Intervals :
          /\ ExtractPnl(fetched) /= None
          /\ LET pnl_value == ExtractPnl(fetched)[1]
             IN  /\ Initialize(pnl_value, threshold, interval_sec)
                 /\ script' = ScriptNext(pnl_value, threshold)
                 /\ twin' = TwinTick(pnl_value, threshold, FALSE, FALSE)
                 /\ seen' = Seen(fetched, FALSE,
                                 ExtremumAfter(direction_file, direction_file', pnl_value,
                                               seen.extremum))
    /\ phase' = ~phase
    /\ UNCHANGED <<long_running, short_running, delta, pc, restarts, workers, bot>>

TickInitialize == TickInit(StatusData)

\* Baseline present: peak update, flip evaluation, status line, and on a
\* flip the actuator calls, the notification and the three writes.  An
\* exception outside the inner try blocks aborts the tick at that point
\* (caught by the loop's except: log, sleep 30).
Evaluate(pnl_value, threshold, interval_sec, tg_configured, post_throws, stop_throws, start_throws) ==
    LET baseline == _read_baseline(baseline_file)
        current_direction == _read_direction(direction_file)
        peak == _read_peak(peak_file)
        peak_fires == PeakUpdateFires(current_direction, pnl_value, baseline, peak)
        peak_calls == IF peak_fires
                      THEN PeakNotifyCalls(tg_configured, post_throws) ELSE <<>>
        direction == FlipDecision(current_direction, pnl_value, baseline, peak, threshold)
        delta_now == DeltaAfter(current_direction, pnl_value, baseline, peak, delta)
        raises == StatusLineRaises(baseline, peak)
        flips == ~raises /\ direction /= None
        flip_calls == IF flips
                      THEN ActuatorCalls(direction[1], stop_throws, start_throws)
                           \o FlipNotifyCalls(tg_configured, delta_now, post_throws)
                           \o <<Call("write_state", FALSE)>>
                      ELSE <<>>
    IN  /\ baseline_file' = IF flips THEN _write_baseline(pnl_value) ELSE baseline_file
        /\ direction_file' = IF flips THEN _write_direction(direction[1])
                             ELSE direction_file
        /\ peak_file' = IF flips \/ peak_fires THEN _write_peak(pnl_value)
                        ELSE peak_file
        /\ delta' = delta_now
        /\ last' = Rec("eval", Some(pnl_value), Some(threshold), direction,
                       peak_fires, raises, peak_calls \o flip_calls,
                       IF raises THEN ErrorSleep ELSE interval_sec)

\* Whether a tick with these inputs gets as far as the actuator calls, and
\* whether it attempts a notification: the outcome of a call is an input of
\* the tick only when the call is made.
ReachesActuators(pnl_value, threshold) ==
    LET baseline == _read_baseline(baseline_file)
        current_direction == _read_direction(direction_file)
        peak == _read_peak(peak_file)
    IN  /\ ~StatusLineRaises(baseline, peak)
        /\ FlipDecision(current_direction, pnl_value, baseline, peak, threshold) /= None

AttemptsNotify(pnl_value, threshold, tg_configured) ==
    LET baseline == _read_baseline(baseline_file)
        current_direction == _read_direction(direction_file)
        peak == _read_peak(peak_file)
    IN  /\ tg_configured
        /\ \/ PeakUpdateFires(current_direction, pnl_value, baseline, peak)
           \/ ReachesActuators(pnl_value, threshold)

\* Whether the tick has something to notify (a peak update or a decided
\* flip): the telegram section of the configuration is an input of the tick
\* only then.
HasNews(pnl_value, threshold) ==
    LET baseline == _read_baseline(baseline_file)
        current_direction == _read_direction(direction_file)
        peak == _read_peak(peak_file)
    IN  \/ PeakUpdateFires(current_direction, pnl_value, baseline, peak)
        \/ FlipDecision(current_direction, pnl_value, baseline, peak, threshold) /= None

Outcomes(call_made) == IF call_made THEN BOOLEAN ELSE {FALSE}

TickEval(D) ==
    /\ pc = "loop"
    /\ _read_baseline(baseline_file) /= None
    /\ \E fetched \in D, threshold \in Thresholds, interval_sec \in Intervals :
          /\ ExtractPnl(fetched) /= None
          /\ LET pnl_value == ExtractPnl(fetched)[1]
             IN  \E tg_configured \in Outcomes(HasNews(pnl_value, threshold)) :
                 \E post_throws \in Outcomes(AttemptsNotify(pnl_value, threshold, tg_configured)),
                    stop_throws \in Outcomes(ReachesActuators(pnl_value, threshold)),
                    start_throws \in Outcomes(ReachesActuators(pnl_value, threshold)) :
                    /\ Evaluate(pnl_value, threshold, interval_sec, tg_configured,
                                post_throws, stop_throws, start_throws)
                    /\ script' = ScriptNext(pnl_value, threshold)
                    /\ twin' = TwinTick(pnl_value, threshold, stop_throws, start_throws)
                    /\ seen' = Seen(fetched, tg_configured,
                                    ExtremumAfter(direction_file, direction_file',
                                                  pnl_value, seen.extremum))
    /\ pc' = IF last'.raised THEN PcAfterLoopError ELSE pc
    /\ phase' = ~phase
    /\ UNCHANGED <<long_running, short_running, restarts, workers, bot>>

TickEvaluate == TickEval(StatusData)

Next ==
    \/ Startup
    \/ Restart
    \/ TickConfigError
    \/ TickNoUrl
    \/ TickFetchFailed
    \/ TickInitialize
    \/ TickEvaluate

Spec == Init /\ [][Next]_vars

----------------------------------------------------------------------------
(* Responses other than a list of positions with profit_abs *)

\* The JSON is neither an object nor a list: pnl stays None; log, sleep
\* interval_sec, continue.
TickPnlNotFound ==
    /\ pc = "loop"
    /\ \E fetched \in OddData, interval_sec \in Intervals :
          /\ ExtractPnl(fetched) = None
          /\ last' = Rec("pnl_not_found", None, None, None, FALSE, FALSE, <<>>,
                         interval_sec)
          /\ seen' = Seen(fetched, FALSE, seen.extremum)
    /\ phase' = ~phase
    /\ UNCHANGED <<baseline_file, peak_file, direction_file, long_running,
                   short_running, delta, pc, restarts, script, twin, workers, bot>>

TickInitializeOdd == TickInit(OddData)

TickEvaluateOdd == TickEval(OddData)

NextFetch ==
    \/ Next
    \/ TickPnlNotFound
    \/ TickInitializeOdd
    \/ TickEvaluateOdd

SpecFetch == Init /\ [][NextFetch]_vars

----------------------------------------------------------------------------
(* The process is killed inside a tick *)

\* open(path, 'w') truncates the file before anything is written to it.
EmptyFloatFile == [exists |-> TRUE, parses |-> FALSE, num |-> 0]
EmptyDirFile == [exists |-> TRUE, text |-> ""]

Write(file, num, text) == [file |-> file, num |-> num, text |-> text]

\* The file writes of a tick in the order the tick makes them: the
\* initialization tick writes baseline, peak, direction; an evaluation tick
\* writes the peak when step 1 fires and, when it gets as far as the flip,
\* baseline, direction, peak.
InitWrites(pnl_value) ==
    <<Write("baseline", pnl_value, ""), Write("peak", pnl_value, ""),
      Write("direction", 0, InitDirection(long_running, short_running))>>

EvalWrites(pnl_value, threshold) ==
    LET baseline == _read_baseline(baseline_file)
        current_direction == _read_direction(direction_file)
        peak == _read_peak(peak_file)
        direction == FlipDecision(current_direction, pnl_value, baseline, peak, threshold)
    IN  (IF PeakUpdateFires(current_direction, pnl_value, baseline, peak)
         THEN <<Write("peak", pnl_value, "")>> ELSE <<>>)
        \o (IF ReachesActuators(pnl_value, threshold)
            THEN <<Write("baseline", pnl_value, ""),
                   Write("direction", 0, direction[1]),
                   Write("peak", pnl_value, "")>>
            ELSE <<>>)

TickWrites(pnl_value, threshold) ==
    IF _read_baseline(baseline_file) = None
    THEN InitWrites(pnl_value)
    ELSE EvalWrites(pnl_value, threshold)

\* One write carried out on the three files; torn: the process died after
\* open() truncated the file and before the text reached it.
ApplyWrite(files, w, torn) ==
    IF w.file = "baseline"
    THEN [files EXCEPT !.baseline = IF torn THEN EmptyFloatFile ELSE _write_baseline(w.num)]
    ELSE IF w.file = "peak"
    THEN [files EXCEPT !.peak = IF torn THEN EmptyFloatFile ELSE _write_peak(w.num)]
    ELSE [files EXCEPT !.direction = IF torn THEN EmptyDirFile ELSE _write_direction(w.text)]

\* The files after the first k writes of ws, and the next one torn or not begun.
RECURSIVE ApplyWrites(_, _, _, _)
ApplyWrites(files, ws, k, torn) ==
    IF k = 0
    THEN IF torn THEN ApplyWrite(files, ws[1], TRUE) ELSE files
    ELSE ApplyWrites(ApplyWrite(files, ws[1], FALSE), Tail(ws), k - 1, torn)

\* The process is killed at some point of a tick that fetched a PnL, and is
\* started again: the files are left as the writes made so far left them.
CrashInTick ==
    /\ pc = "loop"
    /\ restarts < MaxRestarts
    /\ \E pnl_value \in PnlValues, threshold \in Thresholds :
          LET ws == TickWrites(pnl_value, threshold)
          IN  \E k \in 0..Len(ws), torn \in BOOLEAN :
                 /\ torn => k < Len(ws)
                 /\ LET files == ApplyWrites(Pre, ws, k, torn)
                    IN  /\ baseline_file' = files.baseline
                        /\ peak_file' = files.peak
                        /\ direction_file' = files.direction
                 /\ last' = Rec("crash", Some(pnl_value), Some(threshold),
                                IF _read_baseline(baseline_file) = None THEN None
                                ELSE FlipDecision(_read_direction(direction_file), pnl_value,
                                                  _read_baseline(baseline_file),
                                                  _read_peak(peak_file), threshold),
                                FALSE, FALSE, <<>>, 0)
    /\ restarts' = restarts + 1
    /\ pc' = "start"
    /\ long_running' = FALSE
    /\ short_running' = FALSE
    /\ delta' = None
    /\ script' = ScriptOff
    /\ phase' = ~phase
    /\ twin' = [TwinStart(twin.long_running, twin.short_running) EXCEPT
                   !.files = [baseline |-> baseline_file', peak |-> peak_file',
                              direction |-> direction_file']]
    /\ workers' = WorkersAfterExit(workers)
    /\ seen' = Seen(NoJson, FALSE,
                    IF direction_file'.text \in {"long", "short"} /\ peak_file'.parses
                    THEN Some(peak_file'.num) ELSE None)
    /\ UNCHANGED bot

NextCrash ==
    \/ Next
    \/ CrashInTick

SpecCrash == Init /\ [][NextCrash]_vars

\* One iteration of while True, whichever way it runs.
Tick ==
    \/ TickConfigError
    \/ TickNoUrl
    \/ TickFetchFailed
    \/ TickInitialize
    \/ TickEvaluate

\* The loop runs on its own daemon thread and every blocking call in it has
\* a timeout: a started process reaches the loop, and a loop that can run
\* an iteration does.
FairSpec == Init /\ [][Next]_vars /\ WF_vars(Startup) /\ WF_vars(Tick)

----------------------------------------------------------------------------
(* Start-up of the bot process (bot.py) *)

\* What config.yml lacks when the process is started: the file itself, the
\* freqtrade section, one key of the telegram section, or nothing.
ConfigShapes == {"file", "freqtrade", "token", "chat_id", "topic_id", "admins", "nothing"}

\* The handlers run_telegram_bot registers, in order.
Handlers ==
    <<"start", "help", "arm", "basket", "status", "basket_set", "bs", "stake",
      "go_long", "flat", "go_short", "add", "a", "remove", "rm", "clear", "c",
      "button_callback", "handle_message">>

\* The parameters of schedule_auto_toggle (none has a default), and the
\* call run_telegram_bot makes: one positional argument, then keywords.
ScheduleParams ==
    <<"application", "get_config", "start_long", "stop_long", "start_short", "stop_short">>

ScheduleCall ==
    [positional |-> 1,
     keywords |-> <<"get_config", "start_long", "stop_long", "start_short", "stop_short",
                    "close_long_positions", "close_short_positions">>]

Range(seq) == {seq[i] : i \in 1..Len(seq)}

\* Python's argument binding: the call is accepted when every keyword names
\* a parameter not already filled positionally and every parameter is
\* filled; otherwise it raises TypeError before the body runs.
Binds(params, call) ==
    /\ call.positional <= Len(params)
    /\ \A k \in Range(call.keywords) :
          \E i \in (call.positional + 1)..Len(params) : params[i] = k
    /\ \A i \in (call.positional + 1)..Len(params) : params[i] \in Range(call.keywords)

Dead(b, error) == [b EXCEPT !.pc = "dead", !.error = error]

\* The module is imported: load_config exits when config.yml is missing,
\* the two FTClient constructions subscript cfg['freqtrade'].
BotImport ==
    /\ bot.pc = "off"
    /\ \E shape \in ConfigShapes :
          bot' = IF shape = "file" THEN Dead([bot EXCEPT !.cfg = shape], "SystemExit")
                 ELSE IF shape = "freqtrade"
                 THEN Dead([bot EXCEPT !.cfg = shape], "KeyError")
                 ELSE [bot EXCEPT !.pc = "imported", !.cfg = shape]
    /\ UNCHANGED <<baseline_file, peak_file, direction_file, long_running, short_running,
                   delta, pc, restarts, last, script, phase, twin, workers, seen>>

\* run_telegram_bot is entered: load_config, Application.builder().token(...).build().
BotBuild ==
    /\ bot.pc = "imported"
    /\ bot' = IF bot.cfg = "token" THEN Dead(bot, "KeyError")
              ELSE [bot EXCEPT !.pc = "built"]
    /\ UNCHANGED <<baseline_file, peak_file, direction_file, long_running, short_running,
                   delta, pc, restarts, last, script, phase, twin, workers, seen>>

\* One application.add_handler(...) call.
BotAddHandler ==
    /\ bot.pc = "built"
    /\ bot.handlers < Len(Handlers)
    /\ bot' = [bot EXCEPT !.handlers = @ + 1]
    /\ UNCHANGED <<baseline_file, peak_file, direction_file, long_running, short_running,
                   delta, pc, restarts, last, script, phase, twin, workers, seen>>

\* application.add_error_handler(error_handler), then the banner, which
\* subscripts cfg['telegram'] for chat_id, topic_id and admins.
BotBanner ==
    /\ bot.pc = "built"
    /\ bot.handlers = Len(Handlers)
    /\ bot' = IF bot.cfg \in {"chat_id", "topic_id", "admins"} THEN Dead(bot, "KeyError")
              ELSE [bot EXCEPT !.pc = "announced"]
    /\ UNCHANGED <<baseline_file, peak_file, direction_file, long_running, short_running,
                   delta, pc, restarts, last, script, phase, twin, workers, seen>>

\* The call of schedule_auto_toggle and what follows it: when the call is
\* accepted the loop thread is started and application.run_polling is
\* entered; when it is not, the TypeError leaves run_telegram_bot, which
\* the module calls unguarded.
BotScheduleAndPoll ==
    /\ bot.pc = "announced"
    /\ bot' = IF Binds(ScheduleParams, ScheduleCall)
              THEN [bot EXCEPT !.pc = "polling", !.threads = @ + 1]
              ELSE Dead(bot, "TypeError")
    /\ UNCHANGED <<baseline_file, peak_file, direction_file, long_running, short_running,
                   delta, pc, restarts, last, script, phase, twin, workers, seen>>

\* The operator starts the process again after it died.
BotRestart ==
    /\ bot.pc = "dead"
    /\ restarts < MaxRestarts
    /\ restarts' = restarts + 1
    /\ bot' = BotInit
    /\ UNCHANGED <<baseline_file, peak_file, direction_file, long_running, short_running,
                   delta, pc, last, script, phase, twin, workers, seen>>

NextBoot ==
    \/ BotImport
    \/ BotBuild
    \/ BotAddHandler
    \/ BotBanner
    \/ BotScheduleAndPoll
    \/ BotRestart

SpecBoot == Init /\ [][NextBoot]_vars

----------------------------------------------------------------------------
(* The confirmation buttons of the trade commands (bot.py) *)

MaxOps == 2
MaxPresses == 3

Operations == {"GO_LONG", "FLAT", "GO_SHORT"}

\* The application is polling: updates are dispatched to the handlers.
BotPolling == [BotInit EXCEPT !.pc = "polling"]

InitChat ==
    /\ LoopInit
    /\ bot = BotPolling

\* A button press being handled: the callback data CONFIRM|op|op_id or
\* CANCEL|op|op_id, and where its button_callback stands: "answer" (in
\* await query.answer(), nothing looked at yet) or "execute" (inside
\* await execute_go_long / execute_flat / execute_go_short).
Callback(action, op_id, at) == [action |-> action, op_id |-> op_id, at |-> at]

Reply(op_id, outcome) == [op_id |-> op_id, outcome |-> outcome]

Remove(seq, i) == SubSeq(seq, 1, i - 1) \o SubSeq(seq, i + 1, Len(seq))

\* executed_operations after the CONFIRM branch recorded the operation.
ExecutedAfterConfirmForgets(executed, op_id) == executed

ExecutedAfterConfirm(executed, op_id) == executed \cup {op_id}

\* /go_long, /flat or /go_short from a permitted user with a non-empty
\* basket: a fresh op_id is generated and the message with the two buttons
\* is sent.  op_ids are numbered in the order they are issued.
TradeCommand ==
    /\ bot.pc = "polling"
    /\ Len(bot.ops) < MaxOps
    /\ \E operation \in Operations :
          bot' = [bot EXCEPT !.ops = Append(@, operation), !.runs = Append(@, 0)]
    /\ UNCHANGED <<baseline_file, peak_file, direction_file, long_running, short_running,
                   delta, pc, restarts, last, script, phase, twin, workers, seen>>

\* A user presses one of the two buttons of an issued operation: the
\* update is dispatched to button_callback, which awaits query.answer().
ButtonPress ==
    /\ bot.pc = "polling"
    /\ bot.presses < MaxPresses
    /\ \E action \in {"CONFIRM", "CANCEL"}, op_id \in 1..Len(bot.ops) :
          bot' = [bot EXCEPT !.pending = Append(@, Callback(action, op_id, "answer")),
                             !.presses = @ + 1]
    /\ UNCHANGED <<baseline_file, peak_file, direction_file, long_running, short_running,
                   delta, pc, restarts, last, script, phase, twin, workers, seen>>

\* button_callback from the return of query.answer() to its next await:
\* chat / topic filter and check_permission (allowed), the idempotence
\* check, the CANCEL branch, and for CONFIRM executed_operations.add(op_id)
\* followed by the call of execute_*.  No await lies between the check and
\* the add.
button_callback ==
    /\ bot.pc = "polling"
    /\ \E i \in 1..Len(bot.pending), allowed \in BOOLEAN :
          LET cb == bot.pending[i]
          IN  /\ cb.at = "answer"
              /\ bot' = IF ~allowed
                        THEN [bot EXCEPT !.pending = Remove(@, i),
                                         !.reply = Reply(cb.op_id, "refused")]
                        ELSE IF cb.action = "CONFIRM" /\ cb.op_id \in bot.executed_operations
                        THEN [bot EXCEPT !.pending = Remove(@, i),
                                         !.reply = Reply(cb.op_id, "duplicate")]
                        ELSE IF cb.action = "CANCEL"
                        THEN [bot EXCEPT !.pending = Remove(@, i),
                                         !.cancelled = @ \cup {cb.op_id},
                                         !.reply = Reply(cb.op_id, "cancelled")]
                        ELSE [bot EXCEPT !.pending[i].at = "execute",
                                         !.executed_operations =
                                             ExecutedAfterConfirm(@, cb.op_id),
                                         !.runs[cb.op_id] = @ + 1,
                                         !.ran_cancelled =
                                             IF cb.op_id \in bot.cancelled
                                             THEN @ \cup {cb.op_id} ELSE @,
                                         !.reply = Reply(cb.op_id, "executing")]
    /\ UNCHANGED <<baseline_file, peak_file, direction_file, long_running, short_running,
                   delta, pc, restarts, last, script, phase, twin, workers, seen>>

\* execute_* returns, or raises into the except of button_callback.
ExecuteReturns ==
    /\ bot.pc = "polling"
    /\ \E i \in 1..Len(bot.pending) :
          /\ bot.pending[i].at = "execute"
          /\ bot' = [bot EXCEPT !.pending = Remove(@, i)]
    /\ UNCHANGED <<baseline_file, peak_file, direction_file, long_running, short_running,
                   delta, pc, restarts, last, script, phase, twin, workers, seen>>

NextChat ==
    \/ TradeCommand
    \/ ButtonPress
    \/ button_callback
    \/ ExecuteReturns

SpecChat == InitChat /\ [][NextChat]_vars

----------------------------------------------------------------------------
(* Properties *)

Persisted(b, p, d) ==
    /\ baseline_file = FloatText(b)
    /\ peak_file = FloatText(p)
    /\ direction_file = DirText(d)

FilesUnchanged ==
    /\ baseline_file = last.pre.baseline
    /\ peak_file = last.pre.peak
    /\ direction_file = last.pre.direction

Ops(calls) == {calls[i].op : i \in 1..Len(calls)}
Count(calls, op) == Cardinality({i \in 1..Len(calls) : calls[i].op = op})
ActuatorOps == {"start_long", "stop_long", "start_short", "stop_short"}

\* The last step was an evaluation tick that read direction d.
EvalFrom(d) ==
    /\ last.kind = "eval"
    /\ last.pre.direction = DirText(d)
    /\ last.pre.baseline.parses
    /\ last.pre.peak.parses

\* C1: from absent state, no instance detected, threshold 400, the fetches
\* 1000, 1420, 1500, 1000 lead to (1000,1000,none), then (1420,1420,short)
\* with stop_long and start_short called once each, then (1420,1500,short)
\* without a flip, then (1000,1000,long).
C1_EndToEnd ==
    /\ script = 1 => Persisted(1000, 1000, "none")
    /\ script = 2 =>
          /\ Persisted(1420, 1420, "short")
          /\ last.kind = "eval" =>
                /\ Count(last.calls, "stop_long") = 1
                /\ Count(last.calls, "start_short") = 1
    /\ script = 3 =>
          /\ Persisted(1420, 1500, "short")
          /\ last.kind = "eval" => Ops(last.calls) \cap ActuatorOps = {}
    /\ script = 4 => Persisted(1000, 1000, "long")

\* C2 as stated: the initialization tick sets baseline = peak = pnl0 and
\* direction = none, evaluates no flip and calls no actuator.
C2_InitDirectionNone ==
    last.kind = "init" =>
        /\ Persisted(last.pnl[1], last.pnl[1], "none")
        /\ last.new_direction = None
        /\ Ops(last.calls) \cap ActuatorOps = {}

\* C2 amended: the initialization tick runs from absent state only, sets
\* baseline = peak = pnl0 and the direction the startup probe inferred
\* (long or short when exactly that instance was seen running, else none),
\* evaluates no flip and calls no actuator.
C2_InitTick ==
    last.kind = "init" =>
        /\ ~last.pre.baseline.exists
        /\ baseline_file = FloatText(last.pnl[1])
        /\ peak_file = FloatText(last.pnl[1])
        /\ (long_running /\ ~short_running) => direction_file = DirText("long")
        /\ (short_running /\ ~long_running) => direction_file = DirText("short")
        /\ (long_running = short_running) => direction_file = DirText("none")
        /\ last.new_direction = None
        /\ ~last.peak_written
        /\ last.calls = <<>>

C2_Witness ==
    /\ last.kind = "init"
    /\ long_running /\ ~short_running
    /\ Persisted(1000, 1000, "long")

\* C3: in direction none with baseline B and threshold T, a tick flips to
\* long when pnl - B <= -T, to short when pnl - B >= T, and leaves the
\* direction none when pnl is strictly inside (B-T, B+T).
C3_ThresholdCrossing ==
    EvalFrom("none") =>
        LET B == last.pre.baseline.num
            T == last.threshold[1]
            pnl == last.pnl[1]
        IN  /\ pnl - B <= -T => direction_file = DirText("long")
            /\ pnl - B >= T => direction_file = DirText("short")
            /\ (B - T < pnl /\ pnl < B + T) => direction_file = DirText("none")

\* C4: with direction long and peak P, a tick with pnl >= P + 500 flips to
\* short and resets baseline = peak = pnl; a tick with P <= pnl < P + 500
\* leaves the direction long.
C4_DrawbackLongToShort ==
    EvalFrom("long") =>
        LET P == last.pre.peak.num
            pnl == last.pnl[1]
        IN  /\ pnl >= P + 500 => Persisted(pnl, pnl, "short")
            /\ (P <= pnl /\ pnl < P + 500) => direction_file = DirText("long")

\* C5: with direction short and peak P, a tick with pnl <= P - 500 flips to
\* long and resets baseline = peak = pnl; a tick with P - 500 < pnl <= P
\* leaves the direction short.
C5_DrawbackShortToLong ==
    EvalFrom("short") =>
        LET P == last.pre.peak.num
            pnl == last.pnl[1]
        IN  /\ pnl <= P - 500 => Persisted(pnl, pnl, "long")
            /\ (P - 500 < pnl /\ pnl <= P) => direction_file = DirText("short")

\* C6: while the direction is long, a tick with pnl < peak sets the peak to
\* pnl, and a tick with pnl >= peak that does not flip leaves the peak as
\* it was.
C6_PeakWhileLong ==
    EvalFrom("long") =>
        LET P == last.pre.peak.num
            pnl == last.pnl[1]
        IN  /\ pnl < P => peak_file = FloatText(pnl)
            /\ (pnl >= P /\ direction_file = last.pre.direction)
                  => peak_file = last.pre.peak

C6_Witness ==
    /\ EvalFrom("long")
    /\ last.pnl[1] < last.pre.peak.num
    /\ last.pre.peak.num < last.pre.baseline.num
    /\ peak_file = FloatText(last.pnl[1])

\* C7: while the direction is short, a tick with pnl > peak sets the peak to
\* pnl, and a tick with pnl <= peak that does not flip leaves the peak as
\* it was.
C7_PeakWhileShort ==
    EvalFrom("short") =>
        LET P == last.pre.peak.num
            pnl == last.pnl[1]
        IN  /\ pnl > P => peak_file = FloatText(pnl)
            /\ (pnl <= P /\ direction_file = last.pre.direction)
                  => peak_file = last.pre.peak

C7_Witness ==
    /\ EvalFrom("short")
    /\ last.pnl[1] > last.pre.peak.num
    /\ last.pre.peak.num > last.pre.baseline.num
    /\ peak_file = FloatText(last.pnl[1])

\* C8: at the end of a tick whose flip evaluation decided new_direction with
\* fetched value pnl, the files hold baseline = pnl, peak = pnl and
\* direction = new_direction.
C8_FlipPersisted ==
    (last.kind = "eval" /\ last.new_direction /= None) =>
        Persisted(last.pnl[1], last.pnl[1], last.new_direction[1])

\* C9: in a tick that decided a flip, the stop call of the losing side is
\* made, the start call of the winning side is made whether or not the stop
\* call threw, and the new direction is persisted whatever the calls did.
C9_ActuatorIsolation ==
    (last.kind = "eval" /\ last.new_direction /= None) =>
        LET winning == last.new_direction[1]
            losing == IF winning = "long" THEN "short" ELSE "long"
        IN  /\ Len(last.calls) >= 2
            /\ \E i \in 1..Len(last.calls) : \E j \in 1..Len(last.calls) :
                  /\ i < j
                  /\ last.calls[i].op = "stop_" \o losing
                  /\ last.calls[j].op = "start_" \o winning
            /\ baseline_file = FloatText(last.pnl[1])
            /\ peak_file = FloatText(last.pnl[1])
            /\ direction_file = DirText(winning)

\* C10: a tick whose fetch fails leaves the three files as they were and
\* calls no actuator.
C10_FetchFailureNoOp ==
    last.kind = "fetch_failed" =>
        /\ FilesUnchanged
        /\ Ops(last.calls) \cap ActuatorOps = {}

C10_Witness ==
    /\ last.kind = "fetch_failed"
    /\ baseline_file.exists
    /\ direction_file = DirText("short")
    /\ peak_file /= baseline_file

\* The last step was a tick in which something failed: an exception reached
\* the loop's handler, the fetch failed, or a wrapped call threw.
Failed ==
    \/ last.raised
    \/ last.kind \in {"fetch_failed", "config_error"}
    \/ \E i \in 1..Len(last.calls) : last.calls[i].threw

FlipDecided == last.kind = "eval" /\ last.new_direction /= None

Winning == last.new_direction[1]
Losing == IF Winning = "long" THEN "short" ELSE "long"

ActuatorCallsOf(calls) == SelectSeq(calls, LAMBDA c : c.op \in ActuatorOps)

\* C12: a tick that fetched a PnL and found a baseline is not aborted
\* between the flip evaluation and the actuation; when the evaluation
\* yields a new direction the same tick calls the actuator pair and
\* persists the new direction.
C12_DecisionConsumed ==
    last.kind = "eval" =>
        /\ ~last.raised
        /\ last.new_direction /= None =>
              /\ {"stop_" \o Losing, "start_" \o Winning} \subseteq Ops(last.calls)
              /\ direction_file = DirText(Winning)

\* C13: in a tick that decided a flip the first actuator call is the stop
\* of the losing side and the second is the start of the winning side.
C13_StopBeforeStart ==
    FlipDecided =>
        LET acts == ActuatorCallsOf(last.calls)
        IN  /\ Len(acts) = 2
            /\ acts[1].op = "stop_" \o Losing
            /\ acts[2].op = "start_" \o Winning

\* C14: a tick that decided a flip calls exactly one stop (losing side) and
\* one start (winning side) and no other actuator; every other tick calls
\* no actuator.
C14_OneTransitionPerTick ==
    IF FlipDecided
    THEN /\ Count(last.calls, "stop_" \o Losing) = 1
         /\ Count(last.calls, "start_" \o Winning) = 1
         /\ Count(last.calls, "start_" \o Losing) = 0
         /\ Count(last.calls, "stop_" \o Winning) = 0
    ELSE Ops(last.calls) \cap ActuatorOps = {}

\* The last step was a tick (of any kind) that did not carry out a flip.
TickKinds == {"config_error", "no_url", "fetch_failed", "pnl_not_found", "init", "eval"}
NonFlipTick ==
    /\ last.kind \in TickKinds
    /\ Ops(last.calls) \cap ActuatorOps = {}

\* The step-1 condition of the source, on the values read at tick start.
Step1Fired ==
    /\ last.kind = "eval"
    /\ last.pre.direction.exists
    /\ \/ /\ last.pre.direction.text = "long"
          /\ last.pnl[1] < last.pre.baseline.num
          /\ (~last.pre.peak.parses \/ last.pnl[1] < last.pre.peak.num)
       \/ /\ last.pre.direction.text = "short"
          /\ last.pnl[1] > last.pre.baseline.num
          /\ (~last.pre.peak.parses \/ last.pnl[1] > last.pre.peak.num)

\* C15 as stated: no tick that does not flip changes baseline or direction,
\* and it changes the peak only when the step-1 update fired.
C15_NonFlipFrameAllTicks ==
    NonFlipTick =>
        /\ baseline_file = last.pre.baseline
        /\ direction_file = last.pre.direction
        /\ peak_file /= last.pre.peak => Step1Fired

\* C15 amended: a tick that finds a baseline present and does not flip
\* leaves baseline and direction as they were and changes the peak only
\* when the step-1 update fired; in direction none it writes nothing.  (The
\* initialization tick does not flip either, and writes all three.)
C15_NonFlipFrame ==
    (NonFlipTick /\ last.pre.baseline.exists) =>
        /\ baseline_file = last.pre.baseline
        /\ direction_file = last.pre.direction
        /\ peak_file /= last.pre.peak => Step1Fired
        /\ last.pre.direction = DirText("none") => FilesUnchanged

C15_Witness ==
    /\ NonFlipTick
    /\ last.kind = "eval"
    /\ last.pre.direction = DirText("none")
    /\ last.pnl[1] /= last.pre.baseline.num
    /\ FilesUnchanged

\* C20: with an empty external_status.url the tick neither fetches nor
\* touches the state files, calls no actuator and no notifier, and sleeps
\* 60 s.
C20_NoUrlSkipsTick ==
    last.kind = "no_url" =>
        /\ FilesUnchanged
        /\ last.pnl = None
        /\ last.calls = <<>>
        /\ ~last.peak_written
        /\ last.slept = NoUrlSleep
        /\ pc = "loop"

C20_Witness ==
    /\ last.kind = "no_url"
    /\ baseline_file.exists
    /\ direction_file = DirText("long")

Directions == {"long", "short", "none"}

\* C16: at every tick boundary, after any ticks, crashes and restarts, the
\* three state files are all absent or all present and readable.
C16_AllOrNothing ==
    pc = "loop" =>
        \/ ~baseline_file.exists /\ ~peak_file.exists /\ ~direction_file.exists
        \/ /\ baseline_file.exists /\ baseline_file.parses
           /\ peak_file.exists /\ peak_file.parses
           /\ direction_file.exists /\ direction_file.text \in Directions

\* C17: after a crash inside a tick the files hold either the complete
\* triple of before the tick or the complete triple the tick was writing:
\* (pnl, pnl, direction) for an initialization or a flip, the old triple
\* with the new peak for a peak update.
C17_AtomicTriple ==
    last.kind = "crash" =>
        \/ FilesUnchanged
        \/ /\ baseline_file = FloatText(last.pnl[1])
           /\ peak_file = FloatText(last.pnl[1])
           /\ direction_file.exists /\ direction_file.text \in Directions
        \/ /\ baseline_file = last.pre.baseline
           /\ direction_file = last.pre.direction
           /\ last.pre.peak.exists
           /\ peak_file = FloatText(last.pnl[1])

C18_RestartRecovery ==
    /\ Pre = twin.files
    /\ last.kind = "startup" => FilesUnchanged
    /\ last.kind = "init" => ~last.pre.baseline.exists
    /\ last.kind \in {"init", "eval"} =>
          /\ last.new_direction = twin.new_direction
          /\ ActuatorCallsOf(last.calls) = twin.acts

C18_Witness ==
    /\ restarts > 0
    /\ last.kind = "eval"
    /\ last.peak_written
    /\ direction_file = DirText("long")
    /\ short_running /\ ~long_running
    /\ twin.long_running /\ ~twin.short_running

\* C21: the direction the initialization tick persists is long exactly
\* when the startup probe saw the long instance alone, short exactly when
\* it saw the short instance alone, and none when it saw both or neither.
C21_InitDirectionFromProbe ==
    last.kind = "init" =>
        /\ direction_file = DirText("long") <=> (long_running /\ ~short_running)
        /\ direction_file = DirText("short") <=> (short_running /\ ~long_running)
        /\ direction_file = DirText("none") <=> (long_running = short_running)

C21_Witness ==
    /\ last.kind = "init"
    /\ long_running /\ short_running
    /\ direction_file = DirText("none")
    /\ baseline_file = FloatText(last.pnl[1])

\* Some state file is absent or does not parse.
StateIncomplete(files) ==
    \/ ~files.baseline.exists \/ ~files.baseline.parses
    \/ ~files.peak.exists \/ ~files.peak.parses
    \/ ~files.direction.exists \/ files.direction.text \notin Directions

\* C22: a tick that fetched a PnL and found any of the three state files
\* absent or unparseable initializes (it does not run the peak and flip
\* evaluation) and is not aborted by an exception.
C22_PartialStateReinitializes ==
    (last.kind \in {"init", "eval"} /\ StateIncomplete(last.pre)) =>
        /\ last.kind = "init"
        /\ ~last.raised
        /\ ~StateIncomplete(Pre)

\* The JSON carries a number for every position: it is a list, or an
\* object with a `trades` list, and each record has profit_abs or both
\* stake and percentage.
NumericPnl(fetched) ==
    /\ fetched.type \in {"list", "dict"}
    /\ fetched.type = "dict" => fetched.has_trades
    /\ \A i \in 1..Len(fetched.trades) :
          \/ fetched.trades[i].profit_abs /= None
          \/ fetched.trades[i].profit_pct /= None /\ fetched.trades[i].stake_amt /= None

\* C23: a tick whose JSON carries no numeric PnL is treated as failed: it
\* neither initializes nor evaluates, changes no file and calls no actuator.
C23_NoNumericPnlIsFailure ==
    (last.kind \in TickKinds /\ seen.data /= NoJson /\ ~NumericPnl(seen.data)) =>
        /\ last.kind \notin {"init", "eval"}
        /\ FilesUnchanged
        /\ Ops(last.calls) \cap ActuatorOps = {}

\* C24: every evaluation tick decides with the threshold its own get_config
\* call returned and with the files as they are at its start, whatever the
\* threshold of the tick before was: from direction none it decides long
\* exactly when pnl - baseline <= -T and short exactly when
\* pnl - baseline >= T.
C24_ConfigFreshEachTick ==
    [][(last'.kind = "eval" /\ direction_file = DirText("none")
            /\ baseline_file.exists /\ baseline_file.parses) =>
          LET B == baseline_file.num
              T == last'.threshold[1]
              pnl == last'.pnl[1]
          IN  /\ last'.pre = Pre
              /\ last'.new_direction = Some("long") <=> (pnl - B <= -T)
              /\ last'.new_direction = Some("short") <=> (pnl - B >= T)]_vars

C24_Witness ==
    /\ last.kind = "eval"
    /\ last.pre.direction = DirText("none")
    /\ last.threshold = Some(500)
    /\ last.pnl[1] - last.pre.baseline.num >= DefaultThreshold
    /\ last.pnl[1] - last.pre.baseline.num < 500
    /\ last.new_direction = None

Index(calls, op) == CHOOSE i \in 1..Len(calls) : calls[i].op = op

\* C26: in a tick that decided a flip the actuator calls come first, then
\* the new baseline, peak and direction are written, then the notification
\* is sent.
C26_FlipSideEffectOrder ==
    FlipDecided =>
        /\ {"stop_" \o Losing, "start_" \o Winning, "write_state"} \subseteq Ops(last.calls)
        /\ Index(last.calls, "stop_" \o Losing) < Index(last.calls, "write_state")
        /\ Index(last.calls, "start_" \o Winning) < Index(last.calls, "write_state")
        /\ "notify_flip" \in Ops(last.calls) =>
              Index(last.calls, "write_state") < Index(last.calls, "notify_flip")

\* C27: every tick that decided a flip, from whichever direction, attempts
\* the flip notification when telegram token and chat_id are configured.
C27_EveryFlipNotifies ==
    (FlipDecided /\ seen.tg_configured) => "notify_flip" \in Ops(last.calls)

NotifyOps == {"notify_peak", "notify_flip"}

\* C28: a tick in which a notification send threw still completes: no
\* exception reaches the loop's handler, the tick sleeps its normal
\* interval, and a decided flip is persisted.
C28_NotifierFailureSwallowed ==
    (last.kind = "eval"
        /\ \E i \in 1..Len(last.calls) :
              last.calls[i].op \in NotifyOps /\ last.calls[i].threw) =>
        /\ ~last.raised
        /\ pc = "loop"
        /\ last.new_direction /= None =>
              Persisted(last.pnl[1], last.pnl[1], last.new_direction[1])

C30_PeakIsRunningExtremum ==
    (direction_file.exists /\ direction_file.text \in {"long", "short"}) =>
        /\ seen.extremum /= None
        /\ peak_file = FloatText(seen.extremum[1])

C30_Witness ==
    /\ direction_file = DirText("long")
    /\ last.kind = "eval"
    /\ last.pre.peak = FloatText(600)
    /\ last.pre.baseline = FloatText(1000)
    /\ last.pnl = Some(1420)
    /\ peak_file = FloatText(600)
    /\ seen.extremum = Some(600)

\* C31: the direction file, when present, holds exactly long, short or
\* none, and no tick writes or decides any other value.
C31_DirectionDomain ==
    /\ direction_file.exists => direction_file.text \in Directions
    /\ last.new_direction /= None => last.new_direction[1] \in {"long", "short"}

C31_Witness ==
    /\ last.kind = "init"
    /\ long_running /\ short_running
    /\ ~last.pre.direction.exists
    /\ direction_file = DirText("none")

\* C32: the startup probe only observes: whatever its status requests come
\* to (running, not running, unreachable, not configured), it calls no
\* actuator, writes no state file, raises nothing into the loop, and the
\* loop is entered.
C32_ProbeObservesOnly ==
    last.kind = "startup" =>
        /\ FilesUnchanged
        /\ Ops(last.calls) \cap ActuatorOps = {}
        /\ ~last.raised
        /\ pc = "loop"

C32_Witness ==
    /\ last.kind = "startup"
    /\ Len(last.calls) = 2
    /\ last.calls[1].threw
    /\ ~last.calls[2].threw
    /\ short_running
    /\ direction_file = DirText("long")
    /\ pc = "loop"

\* C33: in every state reached by ticks from absent state, direction none
\* goes with peak = baseline, long with peak <= baseline, short with
\* peak >= baseline.
C33_PeakSideOfBaseline ==
    direction_file.exists =>
        /\ baseline_file.parses /\ peak_file.parses
        /\ direction_file.text = "none" => peak_file.num = baseline_file.num
        /\ direction_file.text = "long" => peak_file.num <= baseline_file.num
        /\ direction_file.text = "short" => peak_file.num >= baseline_file.num

C33_Witness ==
    /\ direction_file = DirText("short")
    /\ last.kind = "eval"
    /\ last.peak_written
    /\ peak_file.num > baseline_file.num

C35_PeakUpdateExcludesFlip ==
    last.kind = "eval" => ~(last.peak_written /\ last.new_direction /= None)

C37_StartupStartsLoop ==
    /\ bot.cfg = "nothing" => bot.pc /= "dead"
    /\ bot.pc = "polling" => bot.threads = 1

\* C38: under any order and interleaving of button callbacks the operation
\* of one op_id is executed at most once: it has been executed exactly when
\* its op_id is in executed_operations, and a CONFIRM that finds its op_id
\* there is rejected without executing.
C38_ConfirmIdempotent ==
    /\ \A op_id \in 1..Len(bot.runs) :
          /\ bot.runs[op_id] <= 1
          /\ bot.runs[op_id] = 1 <=> op_id \in bot.executed_operations
    /\ bot.reply.outcome = "duplicate" => bot.runs[bot.reply.op_id] = 1

C38_Witness ==
    /\ bot.reply = Reply(1, "duplicate")
    /\ bot.runs[1] = 1
    /\ \E i \in 1..Len(bot.pending) : bot.pending[i] = Callback("CONFIRM", 1, "execute")

\* C39: once a CANCEL for an op_id has been processed, no later CONFIRM
\* with that op_id executes the operation.
C39_CancelledNeverExecuted ==
    bot.ran_cancelled = {}

====
